---- MODULE Spec2Model ----
(***************************************************************************)
(* Model of the scoring engine of the resume screener:                     *)
(*   src/screener/scoring.py  ResumeMatcher                                *)
(*   src/app.py               the one module-level matcher shared by all   *)
(*                            request handlers                             *)
(*   src/screener/nlp.py      SkillExtractor and preprocess_text           *)
(*                                                                         *)
(* Numbers.  Python floats are modelled as exact rationals <<n, d>> in     *)
(* lowest terms (n >= 0, d > 0).  round(x, 2) is round-half-even on the    *)
(* exact value.  The cosine of two TF-IDF vectors is irrational in general;*)
(* it is kept to SimDen-ths (rounded down), and the smoothed IDF of a term *)
(* found in one of the two documents, ln(3/2) + 1 = 1.405..., is kept as   *)
(* IdfOneDoc fifths.  Binary floating-point rounding is not modelled.    *)
(*                                                                         *)
(* Texts.  For the matcher a text is a sequence of whitespace-separated    *)
(* lower-case tokens; for the regular expressions of nlp.py it is a        *)
(* sequence of characters.                                                 *)
(***************************************************************************)
EXTENDS Integers, Sequences, FiniteSets, TLC

(***************************************************************************)
(* Bounds of the model.                                                    *)
(***************************************************************************)
\* longest text, in tokens
MaxLen == 2
\* request threads that may be inside the matcher at once
NumThreads == 2
\* longest text of a request that overlaps another one, in tokens
ConcLen == 1
\* scores tried by the rating harness run from 0 to MaxScore, in 1/ScoreDen steps
MaxScore == 110
ScoreDen == 1000

Threads == 1..NumThreads

Range(f) == {f[i] : i \in DOMAIN f}

Max(a, b) == IF a >= b THEN a ELSE b

(***************************************************************************)
(* Exact rational arithmetic standing for float arithmetic.                *)
(***************************************************************************)
RECURSIVE Gcd(_, _)
Gcd(a, b) == IF b = 0 THEN a ELSE Gcd(b, a % b)

Rat(n, d) == LET g == Gcd(n, d) IN <<n \div g, d \div g>>

Zero == <<0, 1>>
One == <<1, 1>>

RAdd(x, y) ==
    LET g == Gcd(x[2], y[2])
        l == (x[2] \div g) * y[2]
    IN  Rat(x[1] * (l \div x[2]) + y[1] * (l \div y[2]), l)

RMul(x, y) ==
    LET g1 == Gcd(x[1], y[2])
        g2 == Gcd(y[1], x[2])
    IN  Rat((x[1] \div g1) * (y[1] \div g2), (x[2] \div g2) * (y[2] \div g1))

RLe(x, y) == x[1] * y[2] <= y[1] * x[2]

RLt(x, y) == x[1] * y[2] < y[1] * x[2]

RGe(x, k) == x[1] >= k * x[2]

\* round(x, 2)
Round2(x) ==
    LET q   == x[1] \div x[2]
        r   == x[1] % x[2]
        h   == (r * 100) \div x[2]
        rem == (r * 100) % x[2]
        up  == (2 * rem > x[2]) \/ (2 * rem = x[2] /\ h % 2 = 1)
    IN  Rat(q * 100 + h + (IF up THEN 1 ELSE 0), 100)

(***************************************************************************)
(* Skill taxonomy and extraction results (src/screener/nlp.py).            *)
(* The taxonomy is a slice of the built-in default one, categories in     *)
(* dict order.                                                             *)
(***************************************************************************)
skills_taxonomy ==
    << [category |-> "programming_languages", skills |-> <<"python", "java">>],
       [category |-> "web_frameworks",        skills |-> <<"django", "flask">>] >>

SkillNames == UNION {Range(skills_taxonomy[i].skills) : i \in DOMAIN skills_taxonomy}

\* _flatten_skills_taxonomy: skill -> category, a later category overwrites
all_skills ==
    [s \in SkillNames |->
        LET last == CHOOSE i \in DOMAIN skills_taxonomy :
                        /\ s \in Range(skills_taxonomy[i].skills)
                        /\ \A j \in DOMAIN skills_taxonomy :
                              s \in Range(skills_taxonomy[j].skills) => j <= i
        IN  skills_taxonomy[last].category]

\* the keys of all_skills in dict (first insertion) order
RECURSIVE KeysFrom(_, _)
KeysFrom(i, seen) ==
    IF i > Len(skills_taxonomy) THEN <<>>
    ELSE LET fresh == SelectSeq(skills_taxonomy[i].skills, LAMBDA s : s \notin seen)
         IN  fresh \o KeysFrom(i + 1, seen \cup Range(skills_taxonomy[i].skills))

all_skills_keys == KeysFrom(1, {})

\* lexicographic order of the skill names, as sorted() orders Python strings
SortedNames == <<"django", "flask", "java", "python">>

\* sorted(list(S))
Sorted(S) == SelectSeq(SortedNames, LAMBDA s : s \in S)

\* len(re.findall(r'\b' + skill + r'\b', text)) for a one-word alphanumeric skill
CountOf(skill, text) == Cardinality({i \in DOMAIN text : text[i] = skill})

\* SkillExtractor.extract_skills
extract_skills(text, threshold) ==
    LET found   == {s \in SkillNames : CountOf(s, text) >= threshold}
        cats    == {all_skills[s] : s \in found}
    IN  [by_category  |-> [c \in cats |->
                              SelectSeq(all_skills_keys,
                                        LAMBDA s : s \in found /\ all_skills[s] = c)],
         frequencies  |-> [s \in found |-> CountOf(s, text)],
         total_unique |-> Cardinality(found)]

\* the extraction result that reports exactly the skills of S, each seen once
ResultOf(S) ==
    [by_category  |-> [c \in {all_skills[s] : s \in S} |->
                          SelectSeq(all_skills_keys,
                                    LAMBDA s : s \in S /\ all_skills[s] = c)],
     frequencies  |-> [s \in S |-> 1],
     total_unique |-> Cardinality(S)]

SkillResults == {ResultOf(S) : S \in SUBSET SkillNames}

(***************************************************************************)
(* SkillExtractor and preprocess_text on character strings                 *)
(* (src/screener/nlp.py).  A string is a sequence of one-character         *)
(* strings.  A JSON document is a record: an object holds its members in   *)
(* file order, a category's value holds what iterating it yields (the      *)
(* elements of an array, the characters of a string).                      *)
(***************************************************************************)
\* longest text given to extract_skills, in characters
MaxChars == 5
\* the thresholds given to extract_skills run from 0 to MaxThreshold
MaxThreshold == 2
\* longest array of a taxonomy file
MaxItems == 2
\* longest text given to preprocess_text, in pieces of UrlPieces
MaxPieces == 5

\* \w of the regular expressions: the letters of the model
WordChars == {"c", "r", "R", "h", "t", "p", "w", "W"}

IsWord(ch) == ch \in WordChars

\* \s
IsSpace(ch) == ch = " "

LowerChar(ch) == CASE ch = "R" -> "r" [] ch = "W" -> "w" [] OTHER -> ch

\* str.lower()
lower(text) == [i \in DOMAIN text |-> LowerChar(text[i])]

Min(S) == CHOOSE k \in S : \A j \in S : k <= j

Str(chars) == [type |-> "string", chars |-> chars]

Num == [type |-> "number", chars |-> <<>>]

Arr(items) == [type |-> "array", items |-> items]

Obj(members) == [type |-> "object", members |-> members]

\* _get_default_skills, a slice: "c++", "google cloud" (here "c r") and "r"
get_default_skills ==
    Obj(<< [key |-> "programming_languages", value |-> Arr(<<Str(<<"c", "+", "+">>)>>)],
           [key |-> "cloud",                 value |-> Arr(<<Str(<<"c", " ", "r">>)>>)],
           [key |-> "data_science",          value |-> Arr(<<Str(<<"r">>)>>)] >>)

\* _load_skills_taxonomy: json.load of the file, the default taxonomy when
\* open or json.load raises
load_skills_taxonomy(skills_file) ==
    IF skills_file.state = "json" THEN skills_file.json ELSE get_default_skills

NotBuilt(exc) == [raised |-> exc, keys |-> <<>>, category |-> <<>>]

\* the loop of _flatten_skills_taxonomy from one category on: keys is the
\* dict's key order, category the dict
RECURSIVE FlattenFrom(_, _, _)
FlattenFrom(members, keys, category) ==
    IF members = <<>>
    THEN [raised |-> "", keys |-> keys, category |-> category]
    ELSE LET m     == Head(members)
             items == m.value.items
         IN  IF m.value.type = "number" THEN NotBuilt("TypeError")
             ELSE IF \E i \in DOMAIN items : items[i].type # "string"
                  THEN NotBuilt("AttributeError")
                  ELSE LET names == [i \in DOMAIN items |-> lower(items[i].chars)]
                           first == SelectSeq([i \in DOMAIN names |-> i],
                                       LAMBDA i : /\ names[i] \notin Range(keys)
                                                  /\ \A j \in 1..(i - 1) : names[j] # names[i])
                       IN  FlattenFrom(Tail(members),
                                       keys \o [k \in DOMAIN first |-> names[first[k]]],
                                       [s \in Range(keys) \cup Range(names) |->
                                           IF s \in Range(names) THEN m.key
                                           ELSE category[s]])

\* variant: a skill keeps the first category that lists it
flatten_first_category(taxonomy) ==
    LET r == FlattenFrom(taxonomy.members, <<>>, <<>>)
        first(s) == CHOOSE i \in DOMAIN taxonomy.members :
                        /\ \E k \in DOMAIN taxonomy.members[i].value.items :
                              lower(taxonomy.members[i].value.items[k].chars) = s
                        /\ \A j \in 1..(i - 1) :
                              \A k \in DOMAIN taxonomy.members[j].value.items :
                                  lower(taxonomy.members[j].value.items[k].chars) # s
    IN  IF taxonomy.type # "object" THEN NotBuilt("AttributeError")
        ELSE IF r.raised # "" THEN r
        ELSE [r EXCEPT !.category =
                 [s \in Range(r.keys) |-> taxonomy.members[first(s)].key]]

\* _flatten_skills_taxonomy: self.skills_taxonomy.items() raises on anything
\* but a dict
flatten_skills_taxonomy(taxonomy) ==
    IF taxonomy.type # "object" THEN NotBuilt("AttributeError")
    ELSE FlattenFrom(taxonomy.members, <<>>, <<>>)

\* SkillExtractor.__init__: the loaded taxonomy and the index, or the
\* exception that leaves the constructor
SkillExtractorInit(skills_file) ==
    LET taxonomy == load_skills_taxonomy(skills_file)
    IN  [skills_taxonomy |-> taxonomy,
         all_skills      |-> flatten_skills_taxonomy(taxonomy)]

\* \b at position p of text, between text[p - 1] and text[p]
WordBoundary(text, p) ==
    LET before == p > 1 /\ IsWord(text[p - 1])
        after  == p <= Len(text) /\ IsWord(text[p])
    IN  before # after

\* the literal string lit stands in text from position i on
LiteralAt(lit, text, i) ==
    /\ i + Len(lit) - 1 <= Len(text)
    /\ \A k \in 1..Len(lit) : text[i + k - 1] = lit[k]

\* r'\b' + re.escape(skill) + r'\b' matches at position i
MatchAt(skill, text, i) ==
    /\ LiteralAt(skill, text, i)
    /\ WordBoundary(text, i)
    /\ WordBoundary(text, i + Len(skill))

\* len(re.findall(pattern, text)): the matches found scanning from i, each
\* search resuming where the last match ended
RECURSIVE FindAll(_, _, _)
FindAll(skill, text, i) ==
    IF i > Len(text) THEN 0
    ELSE IF MatchAt(skill, text, i)
         THEN 1 + FindAll(skill, text, i + Len(skill))
         ELSE FindAll(skill, text, i + 1)

\* SkillExtractor.extract_skills of an extractor whose index is index
SkillExtractor_extract_skills(index, text, threshold) ==
    LET text_lower == lower(text)
        found == SelectSeq(index.keys,
                           LAMBDA s : FindAll(s, text_lower, 1) >= threshold)
        cats  == {index.category[s] : s \in Range(found)}
    IN  [by_category  |-> [c \in cats |->
                              SelectSeq(found, LAMBDA s : index.category[s] = c)],
         frequencies  |-> [s \in Range(found) |-> FindAll(s, text_lower, 1)],
         total_unique |-> Cardinality(Range(found))]

\* the end of the run of non-blank characters that holds position i: the
\* position after its last character
RunEnd(text, i) ==
    LET blanks == {k \in i..Len(text) : IsSpace(text[k])}
    IN  IF blanks = {} THEN Len(text) + 1 ELSE Min(blanks)

\* http\S+|www\S+ matches at position i
UrlAt(text, i) ==
    \/ /\ LiteralAt(<<"h", "t", "t", "p">>, text, i)
       /\ i + 4 <= Len(text)
       /\ ~IsSpace(text[i + 4])
    \/ /\ LiteralAt(<<"w", "w", "w">>, text, i)
       /\ i + 3 <= Len(text)
       /\ ~IsSpace(text[i + 3])

\* \S+@\S+ matches at position i: an @ later in the run, a character after it
EmailAt(text, i) ==
    /\ ~IsSpace(text[i])
    /\ \E j \in (i + 1)..(RunEnd(text, i) - 2) : text[j] = "@"

\* re.sub(r'http\S+|www\S+', '', text), from position i on: a match runs to
\* the end of the run of non-blank characters
RECURSIVE RemoveUrls(_, _)
RemoveUrls(text, i) ==
    IF i > Len(text) THEN <<>>
    ELSE IF UrlAt(text, i) THEN RemoveUrls(text, RunEnd(text, i))
         ELSE <<text[i]>> \o RemoveUrls(text, i + 1)

\* re.sub(r'\S+@\S+', '', text), from position i on
RECURSIVE RemoveEmails(_, _)
RemoveEmails(text, i) ==
    IF i > Len(text) THEN <<>>
    ELSE IF EmailAt(text, i) THEN RemoveEmails(text, RunEnd(text, i))
         ELSE <<text[i]>> \o RemoveEmails(text, i + 1)

\* re.sub(r'\s+', ' ', text), from position i on
RECURSIVE CollapseSpaces(_, _)
CollapseSpaces(text, i) ==
    IF i > Len(text) THEN <<>>
    ELSE IF IsSpace(text[i])
         THEN LET rest == {k \in i..Len(text) : ~IsSpace(text[k])}
              IN  <<" ">> \o CollapseSpaces(text, IF rest = {} THEN Len(text) + 1
                                                   ELSE Min(rest))
         ELSE <<text[i]>> \o CollapseSpaces(text, i + 1)

\* str.strip()
Strip(text) ==
    LET inked == {k \in DOMAIN text : ~IsSpace(text[k])}
    IN  IF inked = {} THEN <<>>
        ELSE SubSeq(text, Min(inked), CHOOSE k \in inked : \A j \in inked : j <= k)

\* variant: the ends stripped before the removals instead of after
preprocess_strip_first(text) ==
    CollapseSpaces(RemoveEmails(RemoveUrls(Strip(lower(text)), 1), 1), 1)

preprocess_text(text) ==
    Strip(CollapseSpaces(RemoveEmails(RemoveUrls(lower(text), 1), 1), 1))

(***************************************************************************)
(* ResumeMatcher: the pure stages (src/screener/scoring.py).               *)
(***************************************************************************)
\* the flattening loops of calculate_skill_match_score
Flatten(skills) ==
    LET by == IF "by_category" \in DOMAIN skills THEN skills.by_category ELSE <<>>
    IN  UNION {Range(by[c]) : c \in DOMAIN by}

\* variant: the ratio taken over the candidate's skills instead of the target's
skill_match_over_found(resume_skills, jd_skills) ==
    LET resume_flat == Flatten(resume_skills)
        jd_flat     == Flatten(jd_skills)
        matched     == resume_flat \cap jd_flat
        missing     == jd_flat \ resume_flat
    IN  IF jd_flat = {}
        THEN [score   |-> One,
              details |-> [matched |-> <<>>, missing |-> <<>>, required |-> 0]]
        ELSE [score   |-> IF resume_flat = {} THEN Zero
                          ELSE Rat(Cardinality(matched), Cardinality(resume_flat)),
              details |-> [matched  |-> Sorted(matched),
                           missing  |-> Sorted(missing),
                           required |-> Cardinality(jd_flat),
                           found    |-> Cardinality(resume_flat)]]

\* variant: the set difference taken the wrong way round
skill_match_missing_swapped(resume_skills, jd_skills) ==
    LET resume_flat == Flatten(resume_skills)
        jd_flat     == Flatten(jd_skills)
        matched     == resume_flat \cap jd_flat
        missing     == resume_flat \ jd_flat
    IN  IF jd_flat = {}
        THEN [score   |-> One,
              details |-> [matched |-> <<>>, missing |-> <<>>, required |-> 0]]
        ELSE [score   |-> Rat(Cardinality(matched), Cardinality(jd_flat)),
              details |-> [matched  |-> Sorted(matched),
                           missing  |-> Sorted(missing),
                           required |-> Cardinality(jd_flat),
                           found    |-> Cardinality(resume_flat)]]

calculate_skill_match_score(resume_skills, jd_skills) ==
    LET resume_flat == Flatten(resume_skills)
        jd_flat     == Flatten(jd_skills)
        matched     == resume_flat \cap jd_flat
        missing     == jd_flat \ resume_flat
    IN  IF jd_flat = {}
        THEN [score   |-> One,
              details |-> [matched |-> <<>>, missing |-> <<>>, required |-> 0]]
        ELSE [score   |-> Rat(Cardinality(matched), Cardinality(jd_flat)),
              details |-> [matched  |-> Sorted(matched),
                           missing  |-> Sorted(missing),
                           required |-> Cardinality(jd_flat),
                           found    |-> Cardinality(resume_flat)]]

\* weights=None, and the weights a caller may pass
NoWeights == [none |-> TRUE, similarity |-> Zero, skills |-> Zero]

Weights(ws, wk) == [none |-> FALSE, similarity |-> ws, skills |-> wk]

DefaultWeights == Weights(Rat(1, 2), Rat(1, 2))

\* variant: the weighted sum left on the 0-1 scale
composite_unscaled(similarity_score, skill_match_score, weights) ==
    LET w == IF weights.none THEN DefaultWeights ELSE weights
    IN  RAdd(RMul(similarity_score, w.similarity),
             RMul(skill_match_score, w.skills))

generate_composite_score(similarity_score, skill_match_score, weights) ==
    LET w == IF weights.none THEN DefaultWeights ELSE weights
        composite == RAdd(RMul(similarity_score, w.similarity),
                          RMul(skill_match_score, w.skills))
    IN  RMul(composite, <<100, 1>>)

\* variant: boundaries open at the lower edge
score_to_rating_strict(score) ==
    IF RLt(<<80, 1>>, score) THEN 5
    ELSE IF RLt(<<60, 1>>, score) THEN 4
    ELSE IF RLt(<<40, 1>>, score) THEN 3
    ELSE IF RLt(<<20, 1>>, score) THEN 2
    ELSE 1

\* _score_to_rating: the number of stars of the returned string
score_to_rating(score) ==
    IF RGe(score, 80) THEN 5
    ELSE IF RGe(score, 60) THEN 4
    ELSE IF RGe(score, 40) THEN 3
    ELSE IF RGe(score, 20) THEN 2
    ELSE 1

\* the slice seq[:n]
Take(seq, n) == SubSeq(seq, 1, IF Len(seq) < n THEN Len(seq) ELSE n)

\* skill_match_details.get(key, default)
Get(d, key, default) == IF key \in DOMAIN d THEN d[key] ELSE default

\* variant: six matched names listed before the suffix
generate_feedback_six_names(resume_words, skill_match_details, composite_score) ==
    LET headline ==
            IF RGe(composite_score, 80) THEN "Excellent match"
            ELSE IF RGe(composite_score, 60) THEN "Good match"
            ELSE IF RGe(composite_score, 40) THEN "Partial match"
            ELSE "Limited match"
        matched  == Get(skill_match_details, "matched", <<>>)
        missing  == Get(skill_match_details, "missing", <<>>)
        required == Get(skill_match_details, "required", 0)
        found    == Get(skill_match_details, "found", 0)
        l1 == << [line |-> "headline", text |-> headline] >>
        l2 == IF matched # <<>>
              THEN << [line |-> "matched", names |-> Take(matched, 6),
                       more |-> Max(Len(matched) - 6, 0)] >>
              ELSE <<>>
        l3 == IF missing # <<>>
              THEN << [line |-> "missing", names |-> Take(missing, 3),
                       more |-> Max(Len(missing) - 3, 0)] >>
              ELSE <<>>
        l4 == IF required # 0
              THEN << [line |-> "coverage", found |-> found, required |-> required] >>
              ELSE << [line |-> "includes", found |-> found] >>
        l5 == IF resume_words < 100
              THEN << [line |-> "note", text |-> "short"] >>
              ELSE IF resume_words > 1500
                   THEN << [line |-> "note", text |-> "long"] >>
                   ELSE <<>>
    IN  l1 \o l2 \o l3 \o l4 \o l5

\* variant: a text of exactly 100 words taken for a short one
generate_feedback_short_at_100(resume_words, skill_match_details, composite_score) ==
    LET headline ==
            IF RGe(composite_score, 80) THEN "Excellent match"
            ELSE IF RGe(composite_score, 60) THEN "Good match"
            ELSE IF RGe(composite_score, 40) THEN "Partial match"
            ELSE "Limited match"
        matched  == Get(skill_match_details, "matched", <<>>)
        missing  == Get(skill_match_details, "missing", <<>>)
        required == Get(skill_match_details, "required", 0)
        found    == Get(skill_match_details, "found", 0)
        l1 == << [line |-> "headline", text |-> headline] >>
        l2 == IF matched # <<>>
              THEN << [line |-> "matched", names |-> Take(matched, 5),
                       more |-> Max(Len(matched) - 5, 0)] >>
              ELSE <<>>
        l3 == IF missing # <<>>
              THEN << [line |-> "missing", names |-> Take(missing, 3),
                       more |-> Max(Len(missing) - 3, 0)] >>
              ELSE <<>>
        l4 == IF required # 0
              THEN << [line |-> "coverage", found |-> found, required |-> required] >>
              ELSE << [line |-> "includes", found |-> found] >>
        l5 == IF resume_words <= 100
              THEN << [line |-> "note", text |-> "short"] >>
              ELSE IF resume_words > 1500
                   THEN << [line |-> "note", text |-> "long"] >>
                   ELSE <<>>
    IN  l1 \o l2 \o l3 \o l4 \o l5

\* generate_feedback: the lines appended to the list, each as a record;
\* resume_words is len(resume_text.split())
generate_feedback(resume_words, skill_match_details, composite_score) ==
    LET headline ==
            IF RGe(composite_score, 80) THEN "Excellent match"
            ELSE IF RGe(composite_score, 60) THEN "Good match"
            ELSE IF RGe(composite_score, 40) THEN "Partial match"
            ELSE "Limited match"
        matched  == Get(skill_match_details, "matched", <<>>)
        missing  == Get(skill_match_details, "missing", <<>>)
        required == Get(skill_match_details, "required", 0)
        found    == Get(skill_match_details, "found", 0)
        l1 == << [line |-> "headline", text |-> headline] >>
        l2 == IF matched # <<>>
              THEN << [line |-> "matched", names |-> Take(matched, 5),
                       more |-> Max(Len(matched) - 5, 0)] >>
              ELSE <<>>
        l3 == IF missing # <<>>
              THEN << [line |-> "missing", names |-> Take(missing, 3),
                       more |-> Max(Len(missing) - 3, 0)] >>
              ELSE <<>>
        l4 == IF required # 0
              THEN << [line |-> "coverage", found |-> found, required |-> required] >>
              ELSE << [line |-> "includes", found |-> found] >>
        l5 == IF resume_words < 100
              THEN << [line |-> "note", text |-> "short"] >>
              ELSE IF resume_words > 1500
                   THEN << [line |-> "note", text |-> "long"] >>
                   ELSE <<>>
    IN  l1 \o l2 \o l3 \o l4 \o l5

(***************************************************************************)
(* The TfidfVectorizer of ResumeMatcher.__init__ (lowercase, English stop  *)
(* words, max_features=500, ngram_range=(1, 2)) and cosine_similarity.     *)
(***************************************************************************)
\* the content words of the texts, in alphabetical order, and a stop word
WordOrder == <<"java", "python">>

Words == Range(WordOrder)

StopWords == {"the"}

Tokens == Words \cup StopWords

Docs == UNION {[1..n -> Tokens] : n \in 0..MaxLen}

max_features == 500

\* smoothed IDF over the two documents, in fifths: ln(3/3) + 1 = 5/5 for a
\* term of both documents, ln(3/2) + 1 ~ 7/5 for a term of one
IdfBothDocs == 5
IdfOneDoc == 7

\* the cosine is kept to SimDen-ths
SimDen == 100

RECURSIVE SumSeq(_)
SumSeq(q) == IF q = <<>> THEN 0 ELSE Head(q) + SumSeq(Tail(q))

\* every unigram and bigram over Words, in the alphabetical order of the
\* space-joined strings: "java" < "java java" < "java python" < "python" < ...
AllTerms ==
    LET K == Len(WordOrder)
    IN  [i \in 1..(K * (K + 1)) |->
            LET a == WordOrder[((i - 1) \div (K + 1)) + 1]
                j == (i - 1) % (K + 1)
            IN  IF j = 0 THEN <<a>> ELSE <<a, WordOrder[j]>>]

\* the analyzer: tokens, stop words removed, then the 1- and 2-grams;
\* the number of times term occurs among them
TermCount(term, text) ==
    LET f == SelectSeq(text, LAMBDA w : w \notin StopWords)
    IN  IF Len(term) = 1
        THEN Cardinality({i \in 1..Len(f) : f[i] = term[1]})
        ELSE Cardinality({i \in 1..(Len(f) - 1) : f[i] = term[1] /\ f[i + 1] = term[2]})

\* CountVectorizer._limit_features: the limit most frequent terms, ties by index
LimitFeatures(terms, texts, limit) ==
    LET tfs(i) == TermCount(terms[i], texts[1]) + TermCount(terms[i], texts[2])
        before(i) == {j \in DOMAIN terms :
                         tfs(j) > tfs(i) \/ (tfs(j) = tfs(i) /\ j < i)}
        keep == {i \in DOMAIN terms : Cardinality(before(i)) < limit}
    IN  IF Len(terms) <= limit THEN terms
        ELSE LET idx == SelectSeq([i \in DOMAIN terms |-> i], LAMBDA i : i \in keep)
             IN  [k \in DOMAIN idx |-> terms[idx[k]]]

\* CountVectorizer.fit_transform: the sorted vocabulary of the two texts and
\* the matrix of term counts, one row per text
CountVocab(texts) ==
    LET seen  == SelectSeq(AllTerms,
                           LAMBDA t : TermCount(t, texts[1]) + TermCount(t, texts[2]) > 0)
        terms == LimitFeatures(seen, texts, max_features)
    IN  [terms |-> terms,
         rows  |-> [d \in 1..2 |-> [i \in DOMAIN terms |-> TermCount(terms[i], texts[d])]]]

\* variant: the document frequency read off the first document only
IdfOfFirstDoc(rows) ==
    [i \in DOMAIN rows[1] |-> IF rows[1][i] > 0 THEN IdfBothDocs ELSE IdfOneDoc]

\* TfidfTransformer.fit: the IDF vector of a count matrix
IdfOf(rows) ==
    [i \in DOMAIN rows[1] |->
        IF rows[1][i] > 0 /\ rows[2][i] > 0 THEN IdfBothDocs ELSE IdfOneDoc]

\* TfidfTransformer.transform: a row of counts weighted by an IDF vector
TfidfRow(row, idfv) == [i \in DOMAIN row |-> row[i] * idfv[i]]

\* variant: the cosine distance, 1 - cosine, in place of the similarity
CosineDistance(x, y) ==
    LET dot == SumSeq([i \in DOMAIN x |-> x[i] * y[i]])
        nx  == SumSeq([i \in DOMAIN x |-> x[i] * x[i]])
        ny  == SumSeq([i \in DOMAIN y |-> y[i] * y[i]])
    IN  IF dot = 0 THEN One
        ELSE LET k == CHOOSE k \in 0..SimDen :
                          /\ k * k * (nx * ny) <= dot * dot * (SimDen * SimDen)
                          /\ (k + 1) * (k + 1) * (nx * ny) > dot * dot * (SimDen * SimDen)
             IN  Rat(SimDen - k, SimDen)

\* cosine_similarity of two weighted rows (the l2 normalisation of the rows
\* does not change it), an all-zero row giving 0.0
CosineSimilarity(x, y) ==
    LET dot == SumSeq([i \in DOMAIN x |-> x[i] * y[i]])
        nx  == SumSeq([i \in DOMAIN x |-> x[i] * x[i]])
        ny  == SumSeq([i \in DOMAIN y |-> y[i] * y[i]])
    IN  IF dot = 0 THEN Zero
        ELSE LET k == CHOOSE k \in 0..SimDen :
                          /\ k * k * (nx * ny) <= dot * dot * (SimDen * SimDen)
                          /\ (k + 1) * (k + 1) * (nx * ny) > dot * dot * (SimDen * SimDen)
             IN  Rat(k, SimDen)

\* variant: an except clause for another exception class
CaughtKeyError(exc) == exc = "KeyError"

\* except Exception: every exception raised inside the try block is caught
Caught(exc) == TRUE

\* calculate_similarity_score on a matcher no other invocation touches:
\* fit_transform of the two texts, then the cosine of the two rows
similarity_alone(resume_text, jd_text) ==
    LET cv == CountVocab(<<resume_text, jd_text>>)
        w  == IdfOf(cv.rows)
    IN  IF cv.terms = <<>> THEN Zero
        ELSE CosineSimilarity(TfidfRow(cv.rows[1], w), TfidfRow(cv.rows[2], w))

\* score_resume from the similarity on: skill match, composite, feedback and
\* the returned dict, with the locals it was built from
score_resume(sim, a) ==
    LET sm        == calculate_skill_match_score(a.resume_skills, a.jd_skills)
        comp      == generate_composite_score(sim, sm.score, a.weights)
        feedback  == generate_feedback(Len(a.resume_text), sm.details, comp)
    IN  [skill_match |-> sm.score,
         composite   |-> comp,
         result      |-> [final_score       |-> Round2(comp),
                          similarity_score  |-> Round2(RMul(sim, <<100, 1>>)),
                          skill_match_score |-> Round2(RMul(sm.score, <<100, 1>>)),
                          skill_details     |-> sm.details,
                          feedback          |-> feedback,
                          rating            |-> score_to_rating(comp)]]

\* the weights callers pass to score_resume (app.py passes none)
WeightChoices ==
    { NoWeights,
      Weights(One, One),
      Weights(Rat(39998, 100000), Rat(4, 10)) }

(***************************************************************************)
(* State.  vocabulary and idf are the fitted state of the one vectorizer   *)
(* of the shared matcher (<<>>: not fitted yet); the rest is each request  *)
(* thread's frame inside score_resume.  fn_args and fn_ret hold the        *)
(* arguments and the return value of one direct call of a pure method.     *)
(* stale is a history variable: whether, when the thread's call began, the *)
(* shared vectorizer held a fitted IDF vector other than the one of the    *)
(* call's own two texts.                                                   *)
(***************************************************************************)
VARIABLES vocabulary, idf, pc, args, X, similarity, skill_match, composite,
          result, stale, fn_args, fn_ret

shared == <<vocabulary, idf>>
frames == <<pc, args, X, similarity, skill_match, composite, result, stale>>
direct == <<fn_args, fn_ret>>
vars == <<vocabulary, idf, pc, args, X, similarity, skill_match, composite,
          result, stale, fn_args, fn_ret>>

NoArgs == [resume_text |-> <<>>, jd_text |-> <<>>,
           resume_skills |-> ResultOf({}), jd_skills |-> ResultOf({}),
           weights |-> NoWeights]

NoX == [terms |-> <<>>, rows |-> <<<<>>, <<>>>>]

NoResult == [final_score |-> Zero, similarity_score |-> Zero,
             skill_match_score |-> Zero, skill_details |-> <<>>,
             feedback |-> <<>>, rating |-> 0]

NotCalled == [called |-> FALSE, value |-> 0]

\* ResumeMatcher() at import of app.py, every request thread outside score_resume
InitMatcher ==
    /\ vocabulary = <<>>
    /\ idf = <<>>
    /\ pc = [t \in Threads |-> "idle"]
    /\ args = [t \in Threads |-> NoArgs]
    /\ X = [t \in Threads |-> NoX]
    /\ similarity = [t \in Threads |-> Zero]
    /\ skill_match = [t \in Threads |-> Zero]
    /\ composite = [t \in Threads |-> Zero]
    /\ result = [t \in Threads |-> NoResult]
    /\ stale = [t \in Threads |-> FALSE]

Init ==
    /\ InitMatcher
    /\ fn_args = <<>>
    /\ fn_ret = NotCalled

\* a request thread enters score_resume with the two texts, their extraction
\* results (app.py: extract_skills of each text) and the weights
Begin(t, resume_text, jd_text, weights) ==
    /\ pc[t] = "idle"
    /\ pc' = [pc EXCEPT ![t] = "count_fit"]
    /\ args' = [args EXCEPT ![t] =
                   [resume_text   |-> resume_text,
                    jd_text       |-> jd_text,
                    resume_skills |-> extract_skills(resume_text, 1),
                    jd_skills     |-> extract_skills(jd_text, 1),
                    weights       |-> weights]]
    /\ stale' = [stale EXCEPT ![t] =
                    /\ idf # <<>>
                    /\ idf # IdfOf(CountVocab(<<resume_text, jd_text>>).rows)]
    /\ UNCHANGED <<shared, X, similarity, skill_match, composite, result, direct>>

\* the except clause of calculate_similarity_score: 0.0 when the exception is
\* caught, otherwise it leaves score_resume
Except(t, exc) ==
    IF Caught(exc)
    THEN /\ pc' = [pc EXCEPT ![t] = "scored"]
         /\ similarity' = [similarity EXCEPT ![t] = Zero]
    ELSE /\ pc' = [pc EXCEPT ![t] = "raised"]
         /\ UNCHANGED similarity

\* fit_transform, first part: CountVectorizer.fit_transform builds the
\* vocabulary and the count matrix of the two texts, raises ValueError on an
\* empty vocabulary, and stores the vocabulary on the shared vectorizer
CountFit(t) ==
    /\ pc[t] = "count_fit"
    /\ \E cv \in {CountVocab(<<args[t].resume_text, args[t].jd_text>>)} :
           IF cv.terms = <<>>
           THEN /\ Except(t, "ValueError")
                /\ UNCHANGED <<vocabulary, X>>
           ELSE /\ vocabulary' = cv.terms
                /\ X' = [X EXCEPT ![t] = cv]
                /\ pc' = [pc EXCEPT ![t] = "tfidf_fit"]
                /\ UNCHANGED similarity
    /\ UNCHANGED <<idf, args, skill_match, composite, result, stale, direct>>

\* variant: the IDF vector fitted once and kept for later calls
TfidfFitOnce(t) ==
    /\ pc[t] = "tfidf_fit"
    /\ idf' = IF idf = <<>> THEN IdfOf(X[t].rows) ELSE idf
    /\ pc' = [pc EXCEPT ![t] = "tfidf_transform"]
    /\ UNCHANGED <<vocabulary, args, X, similarity, skill_match, composite,
                   result, stale, direct>>

\* fit_transform, second part: self._tfidf.fit(X) stores the IDF vector of
\* this thread's count matrix on the shared vectorizer
TfidfFit(t) ==
    /\ pc[t] = "tfidf_fit"
    /\ idf' = IdfOf(X[t].rows)
    /\ pc' = [pc EXCEPT ![t] = "tfidf_transform"]
    /\ UNCHANGED <<vocabulary, args, X, similarity, skill_match, composite,
                   result, stale, direct>>

\* fit_transform, last part, and the cosine: self._tfidf.transform(X) weights
\* this thread's counts by the IDF vector the shared vectorizer holds now, and
\* raises ValueError when that vector has another number of features
TfidfTransform(t) ==
    /\ pc[t] = "tfidf_transform"
    /\ IF Len(idf) # Len(X[t].rows[1])
       THEN Except(t, "ValueError")
       ELSE /\ similarity' = [similarity EXCEPT ![t] =
                                 CosineSimilarity(TfidfRow(X[t].rows[1], idf),
                                                  TfidfRow(X[t].rows[2], idf))]
            /\ pc' = [pc EXCEPT ![t] = "scored"]
    /\ UNCHANGED <<shared, args, X, skill_match, composite, result, stale,
                   direct>>

\* the rest of score_resume, up to the returned dict
Finish(t) ==
    /\ pc[t] = "scored"
    /\ \E r \in {score_resume(similarity[t], args[t])} :
           /\ skill_match' = [skill_match EXCEPT ![t] = r.skill_match]
           /\ composite' = [composite EXCEPT ![t] = r.composite]
           /\ result' = [result EXCEPT ![t] = r.result]
    /\ pc' = [pc EXCEPT ![t] = "done"]
    /\ UNCHANGED <<shared, args, X, similarity, stale, direct>>

\* score_resume returns (or the exception has left it): the frame is gone
Return(t) ==
    /\ pc[t] \in {"done", "raised"}
    /\ pc' = [pc EXCEPT ![t] = "idle"]
    /\ args' = [args EXCEPT ![t] = NoArgs]
    /\ X' = [X EXCEPT ![t] = NoX]
    /\ similarity' = [similarity EXCEPT ![t] = Zero]
    /\ skill_match' = [skill_match EXCEPT ![t] = Zero]
    /\ composite' = [composite EXCEPT ![t] = Zero]
    /\ result' = [result EXCEPT ![t] = NoResult]
    /\ stale' = [stale EXCEPT ![t] = FALSE]
    /\ UNCHANGED <<shared, direct>>

Step(t) == CountFit(t) \/ TfidfFit(t) \/ TfidfTransform(t) \/ Finish(t) \/ Return(t)

\* a call of score_resume with any texts and weights
BeginAlone(t) ==
    /\ pc[t] = "idle"
    /\ \E resume_text \in Docs, jd_text \in Docs, weights \in WeightChoices :
          Begin(t, resume_text, jd_text, weights)

\* calls made one after the other, by one thread
Next == BeginAlone(1) \/ Step(1)

Spec == Init /\ [][Next]_vars

\* requests served by concurrent threads, as app.py calls score_resume
ConcDocs == {d \in Docs : Len(d) <= ConcLen}

BeginAny(t) ==
    /\ pc[t] = "idle"
    /\ \E resume_text \in ConcDocs, jd_text \in ConcDocs :
          Begin(t, resume_text, jd_text, NoWeights)

NextConc == \E t \in Threads : BeginAny(t) \/ Step(t)

SpecConc == Init /\ [][NextConc]_vars

(***************************************************************************)
(* Direct calls of the pure methods, the arguments drawn at the start.     *)
(***************************************************************************)
InitSkillMatch ==
    /\ InitMatcher
    /\ fn_args \in SkillResults \X SkillResults
    /\ fn_ret = NotCalled

CallSkillMatch ==
    /\ ~fn_ret.called
    /\ fn_ret' = [called |-> TRUE,
                  value  |-> calculate_skill_match_score(fn_args[1], fn_args[2])]
    /\ UNCHANGED <<shared, frames, fn_args>>

SpecSkillMatch == InitSkillMatch /\ [][CallSkillMatch]_vars

Scores == {Rat(n, ScoreDen) : n \in 0..(MaxScore * ScoreDen)}

InitRating ==
    /\ InitMatcher
    /\ fn_args \in {<<s>> : s \in Scores}
    /\ fn_ret = NotCalled

CallRating ==
    /\ ~fn_ret.called
    /\ fn_ret' = [called |-> TRUE, value |-> score_to_rating(fn_args[1])]
    /\ UNCHANGED <<shared, frames, fn_args>>

SpecRating == InitRating /\ [][CallRating]_vars

\* the taxonomy files SkillExtractor is constructed from: absent, unreadable,
\* not JSON, or a JSON document of any shape
Leaves == {Str(<<"r">>), Str(<<"R">>), Str(<<"c", "+", "+">>), Num}

CategoryValues ==
    {Arr(q) : q \in UNION {[1..n -> Leaves] : n \in 0..MaxItems}}
        \cup {[type |-> "string", items |-> <<Str(<<"r">>), Str(<<"c">>)>>],
              [type |-> "number", items |-> <<>>]}

Objects ==
    {Obj(<<>>)}
        \cup {Obj(<<[key |-> c, value |-> v]>>) :
                 c \in {"programming_languages", "data_science"}, v \in CategoryValues}
        \cup {Obj(<<[key |-> "programming_languages", value |-> v],
                    [key |-> "data_science", value |-> w]>>) :
                 v \in CategoryValues, w \in CategoryValues}

NonObjects ==
    {[type |-> ty, members |-> <<>>] : ty \in {"array", "string", "number", "null"}}

SkillsFiles ==
    {[state |-> st, json |-> Obj(<<>>)] : st \in {"missing", "unreadable", "invalid_json"}}
        \cup {[state |-> "json", json |-> j] : j \in Objects \cup NonObjects}

InitConstruct ==
    /\ InitMatcher
    /\ fn_args \in {<<f>> : f \in SkillsFiles}
    /\ fn_ret = NotCalled

\* SkillExtractor(skills_file)
CallConstruct ==
    /\ ~fn_ret.called
    /\ fn_ret' = [called |-> TRUE, value |-> SkillExtractorInit(fn_args[1])]
    /\ UNCHANGED <<shared, frames, fn_args>>

SpecConstruct == InitConstruct /\ [][CallConstruct]_vars

\* the default taxonomy, and one that lists a skill under two categories, in
\* two spellings
TaxonomyChoices ==
    { get_default_skills,
      Obj(<< [key |-> "programming_languages",
              value |-> Arr(<<Str(<<"r">>), Str(<<"c", "+", "+">>)>>)],
             [key |-> "data_science",
              value |-> Arr(<<Str(<<"c", " ", "r">>), Str(<<"R">>)>>)] >>) }

SkillChars == {"c", "r", "R", "+", " "}

SkillTexts == UNION {[1..n -> SkillChars] : n \in 0..MaxChars}

InitExtract ==
    /\ InitMatcher
    /\ fn_args \in TaxonomyChoices \X SkillTexts \X (0..MaxThreshold)
    /\ fn_ret = NotCalled

\* SkillExtractor(file).extract_skills(text, threshold)
CallExtract ==
    /\ ~fn_ret.called
    /\ fn_ret' =
           [called |-> TRUE,
            value  |-> SkillExtractor_extract_skills(
                           SkillExtractorInit([state |-> "json",
                                               json  |-> fn_args[1]]).all_skills,
                           fn_args[2], fn_args[3])]
    /\ UNCHANGED <<shared, frames, fn_args>>

SpecExtract == InitExtract /\ [][CallExtract]_vars

\* the texts given to preprocess_text, put together from these pieces
UrlPieces ==
    {<<"h", "t", "t", "p">>, <<"w", "w", "w">>, <<"w">>, <<"t">>, <<"@">>,
     <<" ">>, <<"W">>}

RECURSIVE Concat(_)
Concat(q) == IF q = <<>> THEN <<>> ELSE Head(q) \o Concat(Tail(q))

UrlTexts == {Concat(q) : q \in UNION {[1..n -> UrlPieces] : n \in 0..MaxPieces}}

InitPreprocess ==
    /\ InitMatcher
    /\ fn_args \in {<<x>> : x \in UrlTexts}
    /\ fn_ret = NotCalled

\* preprocess_text(x), and preprocess_text of what it returned
CallPreprocess ==
    /\ ~fn_ret.called
    /\ \E once \in {preprocess_text(fn_args[1])} :
           fn_ret' = [called |-> TRUE,
                      value  |-> [once |-> once, twice |-> preprocess_text(once)]]
    /\ UNCHANGED <<shared, frames, fn_args>>

SpecPreprocess == InitPreprocess /\ [][CallPreprocess]_vars

\* longest matched and missing lists, longest candidate text in words, given
\* to generate_feedback
MaxMatched == 6
MaxMissing == 4
MaxWords == 1501

\* skill names of the default taxonomy, in sorted order
SkillPool ==
    <<"agile", "angular", "aws", "azure", "django", "docker", "flask", "git",
      "java", "kotlin", "python", "sql">>

\* the details calculate_skill_match_score returns for n matched and m
\* missing skills, the candidate listing the matched ones only
DetailsOf(n, m) ==
    IF n + m = 0
    THEN [matched |-> <<>>, missing |-> <<>>, required |-> 0]
    ELSE [matched  |-> SubSeq(SkillPool, 1, n),
          missing  |-> SubSeq(SkillPool, n + 1, n + m),
          required |-> n + m,
          found    |-> n]

FeedbackScores == {<<45, 1>>, <<85, 1>>}

InitFeedback ==
    /\ InitMatcher
    /\ fn_args \in {<<w, DetailsOf(n, m), c>> :
                       w \in 0..MaxWords, n \in 0..MaxMatched, m \in 0..MaxMissing,
                       c \in FeedbackScores}
    /\ fn_ret = NotCalled

\* generate_feedback(resume_text, jd_text, skill_match_details, composite_score)
CallFeedback ==
    /\ ~fn_ret.called
    /\ fn_ret' = [called |-> TRUE,
                  value  |-> generate_feedback(fn_args[1], fn_args[2], fn_args[3])]
    /\ UNCHANGED <<shared, frames, fn_args>>

SpecFeedback == InitFeedback /\ [][CallFeedback]_vars

(***************************************************************************)
(* Properties.                                                             *)
(***************************************************************************)
\* the distinct skill names an extraction result lists under any category
SkillsIn(r) ==
    {s \in SkillNames :
        \E c \in DOMAIN r.by_category :
            \E i \in DOMAIN r.by_category[c] : r.by_category[c][i] = s}

Elems(q) == {q[i] : i \in DOMAIN q}

Returned(t) == pc[t] = "done"

\* C1: calculate_skill_match_score returns score = |matched| / required when
\* the target lists at least one skill, and score = 1.0 when it lists none,
\* whatever the candidate lists.
C1_ScoreIsMatchedOverRequired ==
    fn_ret.called =>
        LET target == SkillsIn(fn_args[2])
            v      == fn_ret.value
        IN  IF target = {}
            THEN v.score = One
            ELSE /\ v.details.required = Cardinality(target)
                 /\ v.score[1] * v.details.required
                        = Len(v.details.matched) * v.score[2]

\* the scenario: candidate {python, django}, target {python, java} scores 0.5
C1_Witness ==
    /\ fn_ret.called
    /\ SkillsIn(fn_args[1]) = {"python", "django"}
    /\ SkillsIn(fn_args[2]) = {"python", "java"}
    /\ fn_ret.value.score = Rat(1, 2)
    /\ fn_ret.value.details.matched = <<"python">>
    /\ fn_ret.value.details.missing = <<"java">>

\* C2: matched and missing partition the target's flattened skill set:
\* matched = candidate /\ target, missing = target \ candidate, no name twice,
\* required = |target|; both lists empty and required = 0 for an empty target.
C2_MatchedMissingPartition ==
    fn_ret.called =>
        LET cand    == SkillsIn(fn_args[1])
            target  == SkillsIn(fn_args[2])
            d       == fn_ret.value.details
        IN  /\ Elems(d.matched) = cand \cap target
            /\ Elems(d.missing) = target \ cand
            /\ Elems(d.matched) \cap Elems(d.missing) = {}
            /\ Elems(d.matched) \cup Elems(d.missing) = target
            /\ Len(d.matched) + Len(d.missing) = Cardinality(target)
            /\ d.required = Cardinality(target)
            /\ target = {} => d.matched = <<>> /\ d.missing = <<>> /\ d.required = 0

C2_Witness ==
    /\ fn_ret.called
    /\ Len(fn_ret.value.details.matched) = 2
    /\ Len(fn_ret.value.details.missing) = 1
    /\ Cardinality(SkillsIn(fn_args[1])) = 3

\* C3: in every result of score_resume, skill_details carries matched,
\* missing, required and found, and found is the number of distinct skills
\* of the candidate's extraction result.
C3_FoundAlwaysReported ==
    \A t \in Threads :
        Returned(t) =>
            LET d == result[t].skill_details
            IN  /\ DOMAIN d = {"matched", "missing", "required", "found"}
                /\ d.found = Cardinality(SkillsIn(args[t].resume_skills))

\* C4: final_score is (similarity * weights.similarity + skill_match *
\* weights.skills) * 100 rounded to 2 decimals, similarity_score and
\* skill_match_score being the same similarity and skill_match times 100,
\* rounded; omitted weights are 0.5 and 0.5.
C4_FinalScoreIsWeightedSum ==
    \A t \in Threads :
        Returned(t) =>
            LET w  == args[t].weights
                ws == IF w.none THEN Rat(1, 2) ELSE w.similarity
                wk == IF w.none THEN Rat(1, 2) ELSE w.skills
                weighted == RAdd(RMul(similarity[t], ws), RMul(skill_match[t], wk))
            IN  /\ result[t].final_score = Round2(RMul(weighted, <<100, 1>>))
                /\ result[t].similarity_score = Round2(RMul(similarity[t], <<100, 1>>))
                /\ result[t].skill_match_score = Round2(RMul(skill_match[t], <<100, 1>>))

C4_Witness ==
    \E t \in Threads :
        /\ Returned(t)
        /\ args[t].weights.none
        /\ RLt(Zero, similarity[t]) /\ RLt(similarity[t], One)
        /\ skill_match[t] = Rat(1, 2)
        /\ RLt(Zero, result[t].final_score)

\* C5: with similarity and skill_match in [0,1] and non-negative weights, the
\* composite score and the final_score lie in [0,100].
C5_CompositeWithin100 ==
    \A t \in Threads :
        Returned(t) =>
            /\ RLe(composite[t], <<100, 1>>)
            /\ RLe(result[t].final_score, <<100, 1>>)

\* C6: _score_to_rating gives exactly one of five tiers with lower-closed
\* boundaries: 5 for >= 80, 4 for >= 60, 3 for >= 40, 2 for >= 20, 1 below 20.
C6_RatingTiers ==
    fn_ret.called =>
        LET n == fn_args[1][1]
            d == fn_args[1][2]
            r == fn_ret.value
        IN  /\ r \in 1..5
            /\ r = 5 <=> n >= 80 * d
            /\ r = 4 <=> n >= 60 * d /\ n < 80 * d
            /\ r = 3 <=> n >= 40 * d /\ n < 60 * d
            /\ r = 2 <=> n >= 20 * d /\ n < 40 * d
            /\ r = 1 <=> n < 20 * d

\* exactly 80.0 gives the top tier
C6_Witness ==
    /\ fn_ret.called
    /\ fn_args[1] = <<80, 1>>
    /\ fn_ret.value = 5

\* C7: under every interleaving of concurrent invocations on the shared
\* matcher, an invocation's similarity is the one its two texts give when
\* the invocation runs alone.
C7_ConcurrentScoreAsAlone ==
    \A t \in Threads :
        pc[t] \in {"scored", "done"} =>
            similarity[t] = similarity_alone(args[t].resume_text, args[t].jd_text)

\* C8: the result of a call of score_resume is the result the same call gives
\* on a freshly constructed matcher, whatever was scored before it.
C8_ResultAsOnFreshMatcher ==
    \A t \in Threads :
        Returned(t) =>
            result[t] = score_resume(similarity_alone(args[t].resume_text,
                                                      args[t].jd_text),
                                     args[t]).result

\* a call that found the vectorizer fitted by an earlier call on other texts
C8_Witness ==
    \E t \in Threads :
        /\ Returned(t)
        /\ stale[t]
        /\ RLt(Zero, similarity[t]) /\ RLt(similarity[t], One)

\* C9: calculate_similarity_score never raises: no exception leaves it, it
\* returns a number, 0.0 when the vectorization fails (no term left in either
\* text), and score_resume returns its six fields for empty texts.
C9_SimilarityNeverRaises ==
    \A t \in Threads :
        /\ pc[t] # "raised"
        /\ pc[t] \in {"scored", "done"} =>
              /\ RLe(Zero, similarity[t]) /\ similarity[t][2] > 0
              /\ CountVocab(<<args[t].resume_text, args[t].jd_text>>).terms = <<>>
                    => similarity[t] = Zero
        /\ Returned(t) =>
              /\ DOMAIN result[t] = {"final_score", "similarity_score",
                                     "skill_match_score", "skill_details",
                                     "feedback", "rating"}
              /\ result[t].rating \in 1..5
              /\ Len(result[t].feedback) >= 2

\* two empty texts scored: similarity 0.0 and a result
C9_Witness ==
    \E t \in Threads :
        /\ Returned(t)
        /\ args[t].resume_text = <<>>
        /\ args[t].jd_text = <<>>
        /\ similarity[t] = Zero
        /\ result[t].similarity_score = Zero

C11_IdenticalTextsScore100 ==
    \A t \in Threads :
        (Returned(t) /\ args[t].resume_text = args[t].jd_text) =>
            IF \E i \in DOMAIN args[t].resume_text :
                   args[t].resume_text[i] \notin StopWords
            THEN result[t].similarity_score = <<100, 1>>
            ELSE result[t].similarity_score = Zero

\* the same two-term text on both sides, scored after a call on other texts
C11_Witness ==
    \E t \in Threads :
        /\ Returned(t)
        /\ args[t].resume_text = <<"python", "java">>
        /\ args[t].jd_text = <<"python", "java">>
        /\ stale[t]
        /\ result[t].similarity_score = <<100, 1>>

\* the skill names a taxonomy lists, lower-cased
NamesOf(taxonomy) ==
    UNION {{lower(taxonomy.members[i].value.items[k].chars) :
               k \in DOMAIN taxonomy.members[i].value.items} :
           i \in DOMAIN taxonomy.members}

\* the occurrences of lit in text with no word character right before or
\* right after
LiteralCount(lit, text) ==
    Cardinality({i \in 1..Len(text) :
                    /\ LiteralAt(lit, text, i)
                    /\ ~(i > 1 /\ IsWord(text[i - 1]))
                    /\ ~(i + Len(lit) <= Len(text) /\ IsWord(text[i + Len(lit)]))})

\* C12: for every skill name of the taxonomy and every text, extract_skills
\* counts the occurrences of the lower-cased name that have no alphanumeric
\* or underscore character right before or right after, and reports the
\* skill iff that count is >= threshold.
C12_CountsDelimitedOccurrences ==
    fn_ret.called =>
        \A s \in NamesOf(fn_args[1]) :
            LET n    == LiteralCount(s, lower(fn_args[2]))
                freq == fn_ret.value.frequencies
            IN  /\ s \in DOMAIN freq <=> n >= fn_args[3]
                /\ s \in DOMAIN freq => freq[s] = n

\* C13: constructing a SkillExtractor never raises, whatever the taxonomy
\* file is, and the index is built from the loaded or the default taxonomy.
C13_ConstructionNeverRaises ==
    fn_ret.called =>
        /\ fn_ret.value.all_skills.raised = ""
        /\ fn_ret.value.skills_taxonomy \in {fn_args[1].json, get_default_skills}
        /\ Range(fn_ret.value.all_skills.keys) = NamesOf(fn_ret.value.skills_taxonomy)

\* C14: preprocess_text(preprocess_text(x)) = preprocess_text(x).
C14_PreprocessIdempotent ==
    fn_ret.called => fn_ret.value.twice = fn_ret.value.once

\* " httpt W": a URL removed, a capital lowered, the blanks stripped
C14_Witness ==
    /\ fn_ret.called
    /\ fn_args[1] = <<" ", "h", "t", "t", "p", "t", " ", "W">>
    /\ fn_ret.value.once = <<"w">>
    /\ fn_ret.value.twice = <<"w">>

\* the last category of the taxonomy that lists skill s
LastCategory(taxonomy, s) ==
    LET lists(i) == \E k \in DOMAIN taxonomy.members[i].value.items :
                        lower(taxonomy.members[i].value.items[k].chars) = s
        last == CHOOSE i \in DOMAIN taxonomy.members :
                    lists(i) /\ \A j \in DOMAIN taxonomy.members : lists(j) => j <= i
    IN  taxonomy.members[last].key

\* C15: in every result of extract_skills total_unique = |frequencies| = the
\* number of entries of the by_category lists; every found skill stands once,
\* under the last category that lists it, with a frequency >= threshold; a
\* text with no occurrence of any skill gives the empty result for a
\* threshold >= 1.
C15_ExtractionConsistent ==
    fn_ret.called =>
        LET r       == fn_ret.value
            listed  == UNION {{<<c, i>> : i \in DOMAIN r.by_category[c]} :
                              c \in DOMAIN r.by_category}
        IN  /\ r.total_unique = Cardinality(DOMAIN r.frequencies)
            /\ r.total_unique = Cardinality(listed)
            /\ \A e \in listed : r.by_category[e[1]][e[2]] \in DOMAIN r.frequencies
            /\ \A s \in DOMAIN r.frequencies :
                  /\ Cardinality({e \in listed : r.by_category[e[1]][e[2]] = s}) = 1
                  /\ \E i \in DOMAIN r.by_category[LastCategory(fn_args[1], s)] :
                        r.by_category[LastCategory(fn_args[1], s)][i] = s
                  /\ r.frequencies[s] >= fn_args[3]
            /\ \A c \in DOMAIN r.by_category : r.by_category[c] # <<>>
            /\ ( /\ fn_args[3] >= 1
                 /\ \A s \in NamesOf(fn_args[1]) :
                       \A i \in 1..Len(fn_args[2]) : ~LiteralAt(s, lower(fn_args[2]), i) )
               => /\ r.total_unique = 0
                  /\ DOMAIN r.frequencies = {}
                  /\ DOMAIN r.by_category = {}

\* "c r" against the taxonomy that lists r under two categories: r and "c r"
\* both found, both under the later category
C15_Witness ==
    /\ fn_ret.called
    /\ fn_args[1] # get_default_skills
    /\ fn_args[2] = <<"c", " ", "R">>
    /\ fn_args[3] = 1
    /\ fn_ret.value.total_unique = 2
    /\ fn_ret.value.by_category["data_science"] = << <<"r">>, <<"c", " ", "r">> >>

\* C16: in every result of score_resume the headline and the rating follow
\* the same bands: Excellent iff 5 stars, Good iff 4, Partial iff 3, Limited
\* iff 2 or 1.
C16_HeadlineFollowsRating ==
    \A t \in Threads :
        Returned(t) =>
            LET h == result[t].feedback[1]
                r == result[t].rating
            IN  /\ h.line = "headline"
                /\ h.text = "Excellent match" <=> r = 5
                /\ h.text = "Good match" <=> r = 4
                /\ h.text = "Partial match" <=> r = 3
                /\ h.text = "Limited match" <=> r \in {1, 2}

\* a composite of exactly 40.0: Partial match and 3 stars
C16_Witness ==
    \E t \in Threads :
        /\ Returned(t)
        /\ composite[t] = <<40, 1>>
        /\ result[t].feedback[1].text = "Partial match"
        /\ result[t].rating = 3

\* C17: the rating of a result is the tier of the final_score of the same
\* result: 5 iff final_score >= 80, 4 iff in [60,80), 3 iff in [40,60),
\* 2 iff in [20,40), 1 iff below 20.
C17_RatingIsTierOfFinalScore ==
    \A t \in Threads :
        Returned(t) =>
            LET f == result[t].final_score
                r == result[t].rating
            IN  /\ r = 5 <=> RGe(f, 80)
                /\ r = 4 <=> RGe(f, 60) /\ ~RGe(f, 80)
                /\ r = 3 <=> RGe(f, 40) /\ ~RGe(f, 60)
                /\ r = 2 <=> RGe(f, 20) /\ ~RGe(f, 40)
                /\ r = 1 <=> ~RGe(f, 20)

\* the lines of a feedback that have the given kind
LinesOf(feedback, kind) == SelectSeq(feedback, LAMBDA l : l.line = kind)

\* C18: generate_feedback lists the first min(5, n) of n matched names, with
\* the suffix "+N more", N = n - 5, iff n > 5; the first min(3, m) of m
\* missing names, N = m - 3, iff m > 3; no matched line iff matched is empty,
\* no missing line iff missing is empty.
C18_SkillLinesTruncated ==
    fn_ret.called =>
        LET matched == fn_args[2].matched
            missing == fn_args[2].missing
            n  == Len(matched)
            m  == Len(missing)
            lm == LinesOf(fn_ret.value, "matched")
            lx == LinesOf(fn_ret.value, "missing")
        IN  /\ lm = <<>> <=> n = 0
            /\ lx = <<>> <=> m = 0
            /\ n > 0 =>
                  /\ Len(lm) = 1
                  /\ lm[1].names = SubSeq(matched, 1, IF n < 5 THEN n ELSE 5)
                  /\ lm[1].more = IF n > 5 THEN n - 5 ELSE 0
            /\ m > 0 =>
                  /\ Len(lx) = 1
                  /\ lx[1].names = SubSeq(missing, 1, IF m < 3 THEN m ELSE 3)
                  /\ lx[1].more = IF m > 3 THEN m - 3 ELSE 0

\* six matched and four missing skills: 5 names "+1 more", 3 names "+1 more"
C18_Witness ==
    /\ fn_ret.called
    /\ Len(fn_args[2].matched) = 6
    /\ Len(fn_args[2].missing) = 4
    /\ Len(LinesOf(fn_ret.value, "matched")[1].names) = 5
    /\ LinesOf(fn_ret.value, "matched")[1].more = 1
    /\ Len(LinesOf(fn_ret.value, "missing")[1].names) = 3
    /\ LinesOf(fn_ret.value, "missing")[1].more = 1

\* the place of a line in the fixed order of the feedback
LineRank(l) ==
    CASE l.line = "headline" -> 1
      [] l.line = "matched" -> 2
      [] l.line = "missing" -> 3
      [] l.line \in {"coverage", "includes"} -> 4
      [] l.line = "note" -> 5

\* C19: the "short" note is there iff the candidate text has fewer than 100
\* words, the "long" one iff it has more than 1500, never both, none from 100
\* to 1500 words; a note is the last line, after the headline, matched,
\* missing and coverage lines, which stand in that order.
C19_LengthNoteLast ==
    fn_ret.called =>
        LET fb    == fn_ret.value
            w     == fn_args[1]
            notes == LinesOf(fb, "note")
        IN  /\ (\E i \in DOMAIN notes : notes[i].text = "short") <=> w < 100
            /\ (\E i \in DOMAIN notes : notes[i].text = "long") <=> w > 1500
            /\ Len(notes) <= 1
            /\ (w >= 100 /\ w <= 1500) => notes = <<>>
            /\ notes # <<>> => fb[Len(fb)].line = "note"
            /\ fb[1].line = "headline"
            /\ \A i \in 1..(Len(fb) - 1) : LineRank(fb[i]) < LineRank(fb[i + 1])
            /\ \E i \in DOMAIN fb : LineRank(fb[i]) = 4

\* a text of 1501 words with matched and missing skills: five lines, the
\* "long" note last
C19_Witness ==
    /\ fn_ret.called
    /\ fn_args[1] = 1501
    /\ Len(fn_ret.value) = 5
    /\ fn_ret.value[5] = [line |-> "note", text |-> "long"]
    /\ fn_ret.value[2].line = "matched"
    /\ fn_ret.value[3].line = "missing"
    /\ fn_ret.value[4].line = "coverage"

====
